---------------------------- MODULE Spec2Model ----------------------------
(***************************************************************************)
(* Model of matematicke_vyrazy/script.js: the expression tokenizer, the    *)
(* three-tier fold evaluator, the equation checker and the grading pass    *)
(* (computeEquations) over number inputs created by createCisloInputs.     *)
(*                                                                         *)
(* Strings are sequences of one-character strings.  Numbers are the IEEE   *)
(* doubles that are binary fractions n/d (d a power of two, lowest terms)  *)
(* with |n| and d up to MaxValue, extended with the specials NaN (0/0),    *)
(* +Infinity (1/0) and -Infinity (-1/0).  On these doubles + - * / are     *)
(* exact whenever the exact result is again such a fraction (IEEE results  *)
(* are correctly rounded).  A result that is not such a fraction - beyond  *)
(* MaxValue, or a quotient or decimal literal such as 1/3 or 0.3 that the  *)
(* double only approximates - is outside the exactly modelled range and is *)
(* written BigV.  Nothing is stated about such a number: arithmetic on it  *)
(* gives BigV again, a comparison with it gives Unmodelled, the actions    *)
(* are not enabled on it, and the inputs are restricted so that no         *)
(* evaluation ever produces one (InBounds).                                *)
(***************************************************************************)
EXTENDS Integers, Sequences, FiniteSets, TLC

VARIABLES
    expr,        \* evaluator input: the string handed to the call
    pc,          \* evaluator position: start, tok, pow, mul, add, done
    s,           \* tokenizeExpression: the whitespace-free string
    i,           \* tokenizeExpression: scan index (1-based)
    tokens,      \* evaluateExpression: the mutable token sequence
    tokens0,     \* the token sequence as tokenizeExpression returned it
    folds,       \* number of fold steps done by the three reduction loops
    result,      \* value returned by evaluateExpression (NoResult before)
    eqResult,    \* value returned by evaluateEquationString ("none" before)
    items,       \* the item configs given to createCisloInputs
    inputs,      \* the .cislo inputs of the container, in document order
    value,       \* input.value of every input
    bg,          \* input.style.backgroundColor of every input
    verdict,     \* value returned by the last computeEquations ("none" before)
    gpc,         \* grading position: idle, loop, status
    idToInput,   \* grading: the Map of line 163
    eqNumbers,   \* grading: the sorted array of line 164
    eqIdx,       \* grading: index of the next equation number to process
    allUnknownInputs, \* grading: the Set of line 168
    correctCount,     \* grading: the Map of line 169 (absent key = 0)
    totalCount        \* grading: the Map of line 170 (absent key = 0)

evalVars == <<expr, pc, s, i, tokens, tokens0, folds, result, eqResult>>
gradeVars == <<items, inputs, value, bg, verdict, gpc, idToInput, eqNumbers,
               eqIdx, allUnknownInputs, correctCount, totalCount>>
vars == <<expr, pc, s, i, tokens, tokens0, folds, result, eqResult,
          items, inputs, value, bg, verdict, gpc, idToInput, eqNumbers,
          eqIdx, allUnknownInputs, correctCount, totalCount>>

\* ------------------------------------------------------------------ bounds
\* Largest numerator / denominator of an exactly modelled value.  Every
\* binary fraction within this bound is a double (53-bit significand).
MaxValue == 1000
\* Largest number of lexemes concatenated into an arbitrary input string.
MaxLex == 4
\* Largest number of lexemes of an input of the step-by-step evaluator.
MaxStepLex == 3
\* Largest number of numeric literals of a well-formed input expression.
MaxNums == 3
\* Absolute tolerance of the equation checker is 1 / TolDen (1e-9).
TolDen == 1000000000

\* ------------------------------------------------------------- characters
DigitChars == <<"0", "1", "2", "3", "4", "5", "6", "7", "8", "9">>
IsDigit(c) == \E v \in 1..Len(DigitChars) : DigitChars[v] = c
DigitVal(c) == (CHOOSE v \in 1..Len(DigitChars) : DigitChars[v] = c) - 1
\* a non-empty string of digits
IsDigits(str) == str # <<>> /\ \A j \in 1..Len(str) : IsDigit(str[j])
\* /[\d.]/
IsNumChar(c) == IsDigit(c) \/ c = "."
\* /\s/ (the only whitespace character of the modelled alphabet is the blank)
IsSpace(c) == c = " "

Abs(x) == IF x < 0 THEN -x ELSE x
Sgn(x) == IF x < 0 THEN -1 ELSE IF x > 0 THEN 1 ELSE 0

RECURSIVE GCD(_, _)
GCD(a, b) == IF b = 0 THEN a ELSE GCD(b, a % b)

\* ----------------------------------------------------------------- values
NumV(n, d) == [k |-> "num", op |-> "", n |-> n, d |-> d]
OpT(o) == [k |-> "op", op |-> o, n |-> 0, d |-> 0]
\* a number outside the exactly modelled range: beyond MaxValue, or a double
\* that is the rounding of a value that is not a binary fraction; which
\* number it is, is not modelled
BigV == [k |-> "big", op |-> "", n |-> 0, d |-> 0]
\* JavaScript's undefined (an index outside the array)
Undef == [k |-> "undef", op |-> "", n |-> 0, d |-> 0]
NaNV == NumV(0, 0)
InfV == NumV(1, 0)
NegInfV == NumV(-1, 0)
ZeroV == NumV(0, 1)
OneV == NumV(1, 1)

\* typeof t === 'number'
IsNumber(t) == t.k \in {"num", "big"}
IsBig(v) == v.k = "big"
\* isNaN(v) for a number v
IsNaN(v) == v.k = "num" /\ v.d = 0 /\ v.n = 0
IsInf(v) == v.k = "num" /\ v.d = 0 /\ v.n # 0
IsFinite(v) == v.k = "num" /\ v.d > 0

RECURSIVE IsPowerOfTwo(_)
IsPowerOfTwo(d) == d = 1 \/ (d > 1 /\ d % 2 = 0 /\ IsPowerOfTwo(d \div 2))

\* The double of the exact value n/d (d # 0): n/d in lowest terms when that
\* is a binary fraction within MaxValue (the double is then exactly n/d),
\* BigV otherwise (the double is a rounded value, or beyond MaxValue).
Mk(n, d) ==
    LET sn == IF d < 0 THEN -n ELSE n
        sd == Abs(d)
        g  == GCD(Abs(sn), sd)
    IN  IF Abs(sn) \div g > MaxValue \/ sd \div g > MaxValue
           \/ ~IsPowerOfTwo(sd \div g)
        THEN BigV
        ELSE NumV(sn \div g, sd \div g)

Neg(v) == IF v.k = "num" THEN NumV(-v.n, v.d) ELSE v

\* a + b
Add(a, b) ==
    IF IsBig(a) \/ IsBig(b) THEN BigV
    ELSE IF IsNaN(a) \/ IsNaN(b) THEN NaNV
    ELSE IF IsInf(a) /\ IsInf(b) THEN (IF a.n = b.n THEN a ELSE NaNV)
    ELSE IF IsInf(a) THEN a
    ELSE IF IsInf(b) THEN b
    ELSE Mk(a.n * b.d + b.n * a.d, a.d * b.d)

\* a - b
Sub(a, b) == Add(a, Neg(b))

\* a * b
Mul(a, b) ==
    IF IsBig(a) \/ IsBig(b) THEN BigV
    ELSE IF IsNaN(a) \/ IsNaN(b) THEN NaNV
    ELSE IF IsInf(a) \/ IsInf(b)
         THEN (IF a.n = 0 \/ b.n = 0 THEN NaNV ELSE NumV(Sgn(a.n) * Sgn(b.n), 0))
    ELSE Mk(a.n * b.n, a.d * b.d)

\* a / b
Div(a, b) ==
    IF IsBig(a) \/ IsBig(b) THEN BigV
    ELSE IF IsNaN(a) \/ IsNaN(b) THEN NaNV
    ELSE IF IsInf(a) /\ IsInf(b) THEN NaNV
    ELSE IF IsInf(a) THEN NumV(IF b.n < 0 THEN -a.n ELSE a.n, 0)
    ELSE IF IsInf(b) THEN ZeroV
    ELSE IF b.n = 0 THEN (IF a.n = 0 THEN NaNV ELSE NumV(Sgn(a.n), 0))
    ELSE Mk(a.n * b.d, a.d * b.n)

\* Math.floor(v)
Floor(v) == IF IsFinite(v) THEN Mk(v.n \div v.d, 1) ELSE v

\* a % b of JavaScript: the remainder of the truncated division, with the
\* sign of the dividend; on doubles it is computed without rounding, so on
\* two binary fractions it is the exact remainder
JsRem(a, b) ==
    IF IsBig(a) \/ IsBig(b) THEN BigV
    ELSE IF IsNaN(a) \/ IsNaN(b) \/ IsInf(a) THEN NaNV
    ELSE IF IsInf(b) THEN a
    ELSE IF b.n = 0 THEN NaNV
    ELSE Mk(Sgn(a.n) * ((Abs(a.n) * b.d) % (Abs(b.n) * a.d)), a.d * b.d)

\* ((a % b) + b) % b
FloorMod(a, b) == JsRem(Add(JsRem(a, b), b), b)

RECURSIVE PowAcc(_, _, _)
PowAcc(a, e, acc) ==
    IF e = 0 \/ IsBig(acc) THEN acc ELSE PowAcc(a, e - 1, Mul(acc, a))

\* a ** e for a finite a and an integer e >= 0
PowInt(a, e) ==
    IF Abs(a.n) = 1 /\ a.d = 1
    THEN (IF a.n = 1 \/ e % 2 = 0 THEN OneV ELSE a)
    ELSE PowAcc(a, e, OneV)

\* Math.pow(a, b)
Pow(a, b) ==
    IF IsBig(a) \/ IsBig(b) THEN BigV
    ELSE IF IsNaN(b) THEN NaNV
    ELSE IF b.n = 0 /\ b.d # 0 THEN OneV
    ELSE IF IsNaN(a) THEN NaNV
    ELSE IF IsInf(b)
         THEN (IF IsInf(a) \/ Abs(a.n) > a.d
               THEN (IF b.n > 0 THEN InfV ELSE ZeroV)
               ELSE IF Abs(a.n) = a.d THEN NaNV
               ELSE (IF b.n > 0 THEN ZeroV ELSE InfV))
    ELSE IF IsInf(a)
         THEN (IF b.n < 0 THEN ZeroV
               ELSE IF a.n < 0 /\ b.d = 1 /\ b.n % 2 = 1 THEN NegInfV
               ELSE InfV)
    ELSE IF a.n = 0 THEN (IF b.n > 0 THEN ZeroV ELSE InfV)
    ELSE IF b.d = 1
         THEN (IF b.n > 0 THEN PowInt(a, b.n) ELSE Div(OneV, PowInt(a, -b.n)))
    ELSE IF a.n < 0 THEN NaNV
    ELSE IF a.n = a.d THEN OneV
    \* a fractional power of a positive rational: not an exactly modelled value
    ELSE BigV


\* ------------------------------------------------------ tokenizeExpression
\* String(expr).replace(/\s/g, '')
StripSpaces(str) == SelectSeq(str, LAMBDA c : ~IsSpace(c))

\* First index at or after j whose character is not a digit.
RECURSIVE DigitRunEnd(_, _)
DigitRunEnd(str, j) ==
    IF j <= Len(str) /\ IsDigit(str[j]) THEN DigitRunEnd(str, j + 1) ELSE j

\* The inner while of line 59: first index at or after j outside [\d.].
RECURSIVE NumRunEnd(_, _)
NumRunEnd(str, j) ==
    IF j <= Len(str) /\ IsNumChar(str[j]) THEN NumRunEnd(str, j + 1) ELSE j

\* Decimal value of a digit string, not computed further once beyond MaxValue.
RECURSIVE DecVal(_)
DecVal(ds) ==
    IF ds = <<>> THEN 0
    ELSE LET h == DecVal(SubSeq(ds, 1, Len(ds) - 1))
         IN  IF h > MaxValue THEN h ELSE h * 10 + DigitVal(ds[Len(ds)])

RECURSIVE Pow10(_)
Pow10(e) ==
    IF e = 0 THEN 1
    ELSE LET h == Pow10(e - 1) IN IF h > MaxValue THEN h ELSE h * 10

\* parseFloat(num) for a run of characters of [\d.]: the longest prefix
\* digits [. digits] with at least one digit, NaN when there is none.
ParseFloat(num) ==
    LET intEnd  == DigitRunEnd(num, 1)
        hasDot  == intEnd <= Len(num) /\ num[intEnd] = "."
        fracEnd == IF hasDot THEN DigitRunEnd(num, intEnd + 1) ELSE intEnd
        intDs   == SubSeq(num, 1, intEnd - 1)
        fracDs  == IF hasDot THEN SubSeq(num, intEnd + 1, fracEnd - 1) ELSE <<>>
        m       == DecVal(intDs \o fracDs)
        q       == Pow10(Len(fracDs))
    IN  IF intDs = <<>> /\ fracDs = <<>> THEN NaNV
        ELSE IF m > MaxValue \/ q > MaxValue THEN BigV
        ELSE Mk(m, q)

\* s.substring(i, i + 2)
Sub2(str, j) == SubSeq(str, j, IF j + 1 <= Len(str) THEN j + 1 ELSE Len(str))

SingleOps == {"+", "-", "*", "/", "%"}

\* Index after an iteration that skips an unrecognised character (line 71).
SkipNext(j) == j + 1

\* One iteration of the while loop of lines 56-73 at index j.
TokStep(str, j, toks) ==
    IF IsNumChar(str[j])
    THEN LET e == NumRunEnd(str, j)
         IN  [i |-> e, tokens |-> Append(toks, ParseFloat(SubSeq(str, j, e - 1)))]
    ELSE IF Sub2(str, j) = <<"/", "/">>
    THEN [i |-> j + 2, tokens |-> Append(toks, OpT("//"))]
    ELSE IF Sub2(str, j) = <<"*", "*">>
    THEN [i |-> j + 2, tokens |-> Append(toks, OpT("**"))]
    ELSE IF str[j] \in SingleOps
    THEN [i |-> j + 1, tokens |-> Append(toks, OpT(str[j]))]
    ELSE [i |-> SkipNext(j), tokens |-> toks]

RECURSIVE TokLoop(_, _, _)
TokLoop(str, j, toks) ==
    IF j <= Len(str)
    THEN LET st == TokStep(str, j, toks) IN TokLoop(str, st.i, st.tokens)
    ELSE toks

TokenizeExpression(e) == TokLoop(StripSpaces(e), 1, <<>>)

\* ------------------------------------------------------ evaluateExpression
\* tokens[j] of JavaScript (0-based j = our j - 1): undefined outside the array
At(toks, j) == IF j \in 1..Len(toks) THEN toks[j] ELSE Undef

OpIndices(toks, ops) == {j \in 1..Len(toks) : toks[j].k = "op" /\ toks[j].op \in ops}
HasOp(toks, ops) == OpIndices(toks, ops) # {}
Max(S) == CHOOSE x \in S : \A y \in S : y <= x
Min(S) == CHOOSE x \in S : \A y \in S : x <= y

\* tokens.slice(0, idx - 1).concat(result).concat(tokens.slice(idx + 2))
Splice(toks, idx, r) ==
    SubSeq(toks, 1, idx - 2) \o <<r>> \o SubSeq(toks, idx + 2, Len(toks))

Aborted == [ok |-> FALSE, tokens |-> <<>>]
Folded(toks) == [ok |-> TRUE, tokens |-> toks]

PowOps == {"**"}
MulOps == {"*", "/", "//", "%"}
AddOps == {"+", "-"}

\* Faulty variant: the first '**' is folded first (indexOf instead of lastIndexOf).
PowIndexFirst(toks) == Min(OpIndices(toks, PowOps))

\* tokens.lastIndexOf('**')
PowIndex(toks) == Max(OpIndices(toks, PowOps))
\* tokens.findIndex((t) => mulOps.includes(t))
MulIndex(toks) == Min(OpIndices(toks, MulOps))
\* tokens.findIndex((t) => t === '+' || t === '-')
AddIndex(toks) == Min(OpIndices(toks, AddOps))

\* Faulty variant: the quotient is not floored.
FloorDivNoFloor(a, b) == Div(a, b)

\* a // b: Math.floor(a / b).  The quotient a / b is rounded to a double
\* before the floor; for operands within MaxValue a quotient that is not an
\* integer is at least 1 / MaxValue^2 away from the next integer, far more
\* than the rounding error, so the floor is the floor of the exact quotient.
FloorDiv(a, b) ==
    IF IsBig(a) \/ IsBig(b) THEN BigV
    ELSE IF IsFinite(a) /\ IsFinite(b) /\ b.n # 0
    THEN Mk((a.n * b.d * Sgn(b.n)) \div (a.d * Abs(b.n)), 1)
    ELSE Floor(Div(a, b))

\* lines 103-106
ApplyMulOp(o, a, b) ==
    CASE o = "*"  -> Mul(a, b)
      [] o = "/"  -> Div(a, b)
      [] o = "//" -> FloorDiv(a, b)
      [] o = "%"  -> FloorMod(a, b)

\* line 116
ApplyAddOp(o, a, b) == IF o = "+" THEN Add(a, b) ELSE Sub(a, b)

\* One iteration of the loop of lines 86-93.
FoldPow(toks) ==
    LET idx == PowIndex(toks)
        a   == At(toks, idx - 1)
        b   == At(toks, idx + 1)
    IN  IF ~IsNumber(a) \/ ~IsNumber(b) THEN Aborted
        ELSE Folded(Splice(toks, idx, Pow(a, b)))

\* One iteration of the loop of lines 96-108.
FoldMul(toks) ==
    LET idx == MulIndex(toks)
        a   == At(toks, idx - 1)
        b   == At(toks, idx + 1)
    IN  IF ~IsNumber(a) \/ ~IsNumber(b) THEN Aborted
        ELSE Folded(Splice(toks, idx, ApplyMulOp(toks[idx].op, a, b)))

\* One iteration of the loop of lines 110-118.
FoldAdd(toks) ==
    LET idx == AddIndex(toks)
        a   == At(toks, idx - 1)
        b   == At(toks, idx + 1)
    IN  IF ~IsNumber(a) \/ ~IsNumber(b) THEN Aborted
        ELSE Folded(Splice(toks, idx, ApplyAddOp(toks[idx].op, a, b)))

RECURSIVE ReducePow(_)
ReducePow(toks) ==
    IF HasOp(toks, PowOps)
    THEN LET f == FoldPow(toks) IN IF f.ok THEN ReducePow(f.tokens) ELSE f
    ELSE Folded(toks)

RECURSIVE ReduceMul(_)
ReduceMul(toks) ==
    IF HasOp(toks, MulOps)
    THEN LET f == FoldMul(toks) IN IF f.ok THEN ReduceMul(f.tokens) ELSE f
    ELSE Folded(toks)

RECURSIVE ReduceAdd(_)
ReduceAdd(toks) ==
    IF HasOp(toks, AddOps)
    THEN LET f == FoldAdd(toks) IN IF f.ok THEN ReduceAdd(f.tokens) ELSE f
    ELSE Folded(toks)

\* Value returned once the three loops are over (line 120).
FinalValue(toks) == toks[1]

\* Lines 83-120 on the token sequence of the tokenizer.
EvaluateTokens(toks) ==
    IF Len(toks) = 0 THEN NaNV
    ELSE IF Len(toks) = 1 /\ IsNumber(toks[1]) THEN toks[1]
    ELSE LET p == ReducePow(toks)
         IN  IF ~p.ok THEN NaNV
             ELSE LET m == ReduceMul(p.tokens)
                  IN  IF ~m.ok THEN NaNV
                      ELSE LET a == ReduceAdd(m.tokens)
                           IN  IF ~a.ok THEN NaNV ELSE FinalValue(a.tokens)

EvaluateExpression(exprStr) == EvaluateTokens(TokenizeExpression(exprStr))

\* -------------------------------------------------- evaluateEquationString
\* String(str).split('=')
RECURSIVE Split(_)
Split(str) ==
    LET eqs == {j \in 1..Len(str) : str[j] = "="}
    IN  IF eqs = {} THEN <<str>>
        ELSE <<SubSeq(str, 1, Min(eqs) - 1)>>
                 \o Split(SubSeq(str, Min(eqs) + 1, Len(str)))

\* p.trim()
RECURSIVE Trim(_)
Trim(str) ==
    IF str = <<>> THEN str
    ELSE IF IsSpace(str[1]) THEN Trim(Tail(str))
    ELSE IF IsSpace(str[Len(str)]) THEN Trim(SubSeq(str, 1, Len(str) - 1))
    ELSE str

\* a returned boolean, as kept in eqResult and verdict
BoolStr(b) == IF b THEN "true" ELSE "false"
\* the answer on numbers outside the exactly modelled range
Unmodelled == "unmodelled"

\* Math.abs(left - right) < 1e-9 for numbers that are not NaN: the
\* difference p / q of two modelled numbers is an exact double
WithinTolerance(left, right) ==
    IF IsBig(left) \/ IsBig(right) THEN Unmodelled
    ELSE IF ~IsFinite(left) \/ ~IsFinite(right) THEN "false"
    ELSE LET p == Abs(left.n * right.d - right.n * left.d)
             q == left.d * right.d
         IN  BoolStr(p = 0 \/ (q - 1) \div TolDen >= p)

\* Faulty variant: the number of parts is not checked.
PartsOkAnyLength(parts) == Len(parts) >= 2 /\ parts[1] # <<>> /\ parts[2] # <<>>

\* The guard of line 131 on the trimmed parts.
PartsOk(parts) == Len(parts) = 2 /\ parts[1] # <<>> /\ parts[2] # <<>>

EvaluateEquationString(str) ==
    LET raw   == Split(str)
        parts == [j \in 1..Len(raw) |-> Trim(raw[j])]
    IN  IF ~PartsOk(parts) THEN "false"
        ELSE LET left  == EvaluateExpression(parts[1])
                 right == EvaluateExpression(parts[2])
             IN  IF IsNaN(left) \/ IsNaN(right) THEN "false"
                 ELSE WithinTolerance(left, right)

\* ------------------------------------------------------------ input strings
RECURSIVE Flatten(_)
Flatten(ss) == IF ss = <<>> THEN <<>> ELSE Head(ss) \o Flatten(Tail(ss))

NoBig(toks) == \A j \in 1..Len(toks) : ~IsBig(toks[j])

\* No token sequence the three loops go through holds a value beyond MaxValue.
RECURSIVE BoundedAdd(_)
BoundedAdd(toks) ==
    /\ NoBig(toks)
    /\ HasOp(toks, AddOps) =>
           LET f == FoldAdd(toks) IN f.ok => BoundedAdd(f.tokens)

RECURSIVE BoundedMul(_)
BoundedMul(toks) ==
    /\ NoBig(toks)
    /\ IF HasOp(toks, MulOps)
       THEN LET f == FoldMul(toks) IN f.ok => BoundedMul(f.tokens)
       ELSE BoundedAdd(toks)

RECURSIVE BoundedPow(_)
BoundedPow(toks) ==
    /\ NoBig(toks)
    /\ IF HasOp(toks, PowOps)
       THEN LET f == FoldPow(toks) IN f.ok => BoundedPow(f.tokens)
       ELSE BoundedMul(toks)

\* The string stays within the exactly modelled range, evaluated as an
\* expression and as an equation.
InBounds(str) ==
    /\ BoundedPow(TokenizeExpression(str))
    /\ \A j \in 1..Len(Split(str)) :
           BoundedPow(TokenizeExpression(Trim(Split(str)[j])))

\* The strings made of up to n lexemes of the set lex, concatenated.
LexStrings(lex, n) ==
    {Flatten(ls) : ls \in UNION {[1..k -> lex] : k \in 0..n}}

\* Arbitrary strings: up to n lexemes.
Lexemes == {<<"2">>, <<"7">>, <<"+">>, <<"-">>, <<"*">>, <<"/", "/">>,
            <<"*", "*">>, <<"=">>, <<"e">>, <<" ">>}
InputStrings(n) == {str \in LexStrings(Lexemes, n) : InBounds(str)}

\* Well-formed expressions: 1..n literals separated by operators.
NumLexemes == {<<"0">>, <<"2">>, <<"3">>}
OpLexemes == {<<"+">>, <<"-">>, <<"*">>, <<"/">>, <<"%">>, <<"/", "/">>,
              <<"*", "*">>}
Interleave(nums, ops) ==
    Flatten([j \in 1..(2 * Len(nums) - 1) |->
                IF j % 2 = 1 THEN nums[(j + 1) \div 2] ELSE ops[j \div 2]])
WellFormedStrings(n) ==
    UNION {{Interleave(nums, ops) :
               nums \in [1..k -> NumLexemes], ops \in [1..(k - 1) -> OpLexemes]}
           : k \in 1..n}
WellFormedInputs(n) == {str \in WellFormedStrings(n) : InBounds(str)}

\* Strings for the step-by-step evaluator: up to n lexemes, and two longer
\* inputs that go through all three reduction loops.
StepLexemes == {<<"2">>, <<"+">>, <<"*">>, <<"*", "*">>, <<"e">>}
StepExamples == {<<"2", "+", "2", "*", "2", "*", "*", "2">>,
                 <<"2", "e", "2", "*", "2", "+", "2", "*", "*", "2">>}
StepInputs(n) ==
    {str \in LexStrings(StepLexemes, n) \cup StepExamples : InBounds(str)}

\* --------------------------------------------------- evaluator as a machine
NoResult == Undef
GradeIdle ==
    /\ items = <<>>
    /\ inputs = <<>>
    /\ idToInput = <<>>
    /\ eqNumbers = <<>>
    /\ value = <<>>
    /\ bg = <<>>
    /\ verdict = "none"
    /\ gpc = "idle"
    /\ eqIdx = 0
    /\ allUnknownInputs = {}
    /\ correctCount = <<>>
    /\ totalCount = <<>>

EvalStart(strings) ==
    /\ expr \in strings
    /\ pc = "start"
    /\ s = <<>>
    /\ i = 1
    /\ tokens = <<>>
    /\ tokens0 = <<>>
    /\ folds = 0
    /\ result = NoResult
    /\ eqResult = "none"

\* A call evaluateExpression(expr), as one step; modelled for the strings
\* whose value is in the exactly modelled range.
CallEvaluateExpression ==
    /\ pc = "start"
    /\ result = NoResult
    /\ ~IsBig(EvaluateExpression(expr))
    /\ result' = EvaluateExpression(expr)
    /\ tokens0' = TokenizeExpression(expr)
    /\ UNCHANGED <<expr, pc, s, i, tokens, folds, eqResult>>
    /\ UNCHANGED gradeVars

\* A call evaluateEquationString(expr), as one step; modelled for the
\* strings whose sides are in the exactly modelled range.
CallEvaluateEquationString ==
    /\ pc = "start"
    /\ eqResult = "none"
    /\ EvaluateEquationString(expr) # Unmodelled
    /\ eqResult' = EvaluateEquationString(expr)
    /\ UNCHANGED <<expr, pc, s, i, tokens, tokens0, folds, result>>
    /\ UNCHANGED gradeVars

NextExpr == CallEvaluateExpression \/ CallEvaluateEquationString

InitExpr == EvalStart(InputStrings(MaxLex)) /\ GradeIdle
SpecExpr == InitExpr /\ [][NextExpr]_vars

InitWF == EvalStart(WellFormedInputs(MaxNums)) /\ GradeIdle
SpecWF == InitWF /\ [][NextExpr]_vars

\* evaluateExpression step by step: line 82 up to the tokenizer's loop
Enter ==
    /\ pc = "start"
    /\ pc' = "tok"
    /\ s' = StripSpaces(expr)
    /\ i' = 1
    /\ tokens' = <<>>
    /\ UNCHANGED <<expr, tokens0, folds, result, eqResult>>
    /\ UNCHANGED gradeVars

\* Faulty variant: the else branch of line 70 does not advance the index.
ScanNextStuck(str, j, toks) ==
    IF TokStep(str, j, toks).tokens = toks THEN j ELSE TokStep(str, j, toks).i

\* The index after one iteration of the while loop (lines 59, 63, 66, 69, 71).
ScanNext(str, j, toks) == TokStep(str, j, toks).i

\* one iteration of the while loop of lines 56-73
TokenizeStep ==
    /\ pc = "tok"
    /\ i <= Len(s)
    /\ i' = ScanNext(s, i, tokens)
    /\ tokens' = TokStep(s, i, tokens).tokens
    /\ UNCHANGED <<expr, pc, s, tokens0, folds, result, eqResult>>
    /\ UNCHANGED gradeVars

\* the tokenizer returns; lines 83-84
TokenizeReturn ==
    /\ pc = "tok"
    /\ i > Len(s)
    /\ tokens0' = tokens
    /\ IF Len(tokens) = 0
       THEN pc' = "done" /\ result' = NaNV
       ELSE IF Len(tokens) = 1 /\ IsNumber(tokens[1])
       THEN pc' = "done" /\ result' = tokens[1]
       ELSE pc' = "pow" /\ result' = result
    /\ UNCHANGED <<expr, s, i, tokens, folds, eqResult>>
    /\ UNCHANGED gradeVars

\* One iteration of a reduction loop: fold, or return NaN.
FoldStep(f) ==
    /\ IF f.ok
       THEN tokens' = f.tokens /\ folds' = folds + 1 /\ pc' = pc
                /\ result' = result
       ELSE tokens' = tokens /\ folds' = folds /\ pc' = "done"
                /\ result' = NaNV
    /\ UNCHANGED <<expr, s, i, tokens0, eqResult>>
    /\ UNCHANGED gradeVars

\* A reduction loop's condition is false: go on to the next loop.
LoopExit(next) ==
    /\ pc' = next
    /\ UNCHANGED <<expr, s, i, tokens, tokens0, folds, result, eqResult>>
    /\ UNCHANGED gradeVars

PowStep == pc = "pow" /\ HasOp(tokens, PowOps) /\ FoldStep(FoldPow(tokens))
PowExit == pc = "pow" /\ ~HasOp(tokens, PowOps) /\ LoopExit("mul")
MulStep == pc = "mul" /\ HasOp(tokens, MulOps) /\ FoldStep(FoldMul(tokens))
MulExit == pc = "mul" /\ ~HasOp(tokens, MulOps) /\ LoopExit("add")
AddStep == pc = "add" /\ HasOp(tokens, AddOps) /\ FoldStep(FoldAdd(tokens))

\* line 120
Return ==
    /\ pc = "add"
    /\ ~HasOp(tokens, AddOps)
    /\ pc' = "done"
    /\ result' = FinalValue(tokens)
    /\ UNCHANGED <<expr, s, i, tokens, tokens0, folds, eqResult>>
    /\ UNCHANGED gradeVars

NextSteps ==
    \/ Enter
    \/ TokenizeStep
    \/ TokenizeReturn
    \/ PowStep
    \/ PowExit
    \/ MulStep
    \/ MulExit
    \/ AddStep
    \/ Return

InitSteps == EvalStart(StepInputs(MaxStepLex)) /\ GradeIdle
\* The call runs to completion: a synchronous function is never suspended.
SpecSteps == InitSteps /\ [][NextSteps]_vars /\ WF_vars(NextSteps)

\* ------------------------------------------------- claims on the evaluator
\* numbers and operators strictly alternating, first and last a number
WellFormedTokens(toks) ==
    /\ Len(toks) % 2 = 1
    /\ \A j \in 1..Len(toks) :
           IF j % 2 = 1 THEN IsNumber(toks[j]) ELSE toks[j].k = "op"

\* Reference evaluation by recursive descent: + - split at the last additive
\* operator, * / // % split at the last multiplicative one, ** at the first.
RefApply(o, a, b) ==
    CASE o = "+"  -> Add(a, b)
      [] o = "-"  -> Add(a, Neg(b))
      [] o = "*"  -> Mul(a, b)
      [] o = "/"  -> Div(a, b)
      [] o = "//" -> FloorDiv(a, b)
      [] o = "%"  -> FloorMod(a, b)

RECURSIVE RefPow(_)
RefPow(toks) ==
    IF Len(toks) = 1 THEN toks[1]
    ELSE Pow(toks[1], RefPow(SubSeq(toks, 3, Len(toks))))

RECURSIVE RefMul(_)
RefMul(toks) ==
    IF HasOp(toks, MulOps)
    THEN LET j == Max(OpIndices(toks, MulOps))
         IN  RefApply(toks[j].op, RefMul(SubSeq(toks, 1, j - 1)),
                      RefPow(SubSeq(toks, j + 1, Len(toks))))
    ELSE RefPow(toks)

RECURSIVE RefAdd(_)
RefAdd(toks) ==
    IF HasOp(toks, AddOps)
    THEN LET j == Max(OpIndices(toks, AddOps))
         IN  RefApply(toks[j].op, RefAdd(SubSeq(toks, 1, j - 1)),
                      RefMul(SubSeq(toks, j + 1, Len(toks))))
    ELSE RefMul(toks)

Returned == result # NoResult

\* C5: on every well-formed token sequence evaluateExpression equals the
\* reference evaluation (** tightest and right-associative, then * / // %
\* left-associative, then + - left-associative); 2**3**2 is 512, not 64, and
\* 2+3*2 is 8, not 10.
C5_MatchesReference ==
    Returned =>
        /\ WellFormedTokens(tokens0) => result = RefAdd(tokens0)
        /\ expr = <<"2", "*", "*", "3", "*", "*", "2">> => result = NumV(512, 1)
        /\ expr = <<"2", "+", "3", "*", "2">> => result = NumV(8, 1)

C5_Witness ==
    /\ Returned
    /\ expr = <<"2", "*", "*", "3", "*", "*", "2">>
    /\ WellFormedTokens(tokens0)
    /\ result = NumV(512, 1)

\* expr is the text A//B, A and B digit strings, with a leading '-' or not
FloorDivText(str, neg, j) ==
    LET from == IF neg THEN 2 ELSE 1
    IN  /\ neg => Len(str) >= 1 /\ str[1] = "-"
        /\ j \in from..Len(str)
        /\ IsDigits(SubSeq(str, from, j - 1))
        /\ Sub2(str, j) = <<"/", "/">>
        /\ IsDigits(SubSeq(str, j + 2, Len(str)))
        /\ DecVal(SubSeq(str, j + 2, Len(str))) # 0
LeftOf(str, neg, j) == DecVal(SubSeq(str, IF neg THEN 2 ELSE 1, j - 1))
RightOf(str, j) == DecVal(SubSeq(str, j + 2, Len(str)))

\* C6 as claimed: the text "A//B" evaluates to floor(A/B) and the text
\* "-A//B" to floor(-A/B) ("7//2" is 3, "-7//2" is -4).
C6_FloorBothSigns ==
    Returned =>
        \A j \in 1..Len(expr) :
            /\ FloorDivText(expr, FALSE, j) =>
                   result = NumV(LeftOf(expr, FALSE, j) \div RightOf(expr, j), 1)
            /\ FloorDivText(expr, TRUE, j) =>
                   result = NumV((-LeftOf(expr, TRUE, j)) \div RightOf(expr, j), 1)

\* C6 amended: the text "A//B" evaluates to floor(A/B) ("7//2" is 3); the
\* text "-A//B" evaluates to NaN, its leading minus sign being an operator
\* without a left operand ("-7//2" is NaN, not -4).
C6_FloorUnsignedOnly ==
    Returned =>
        \A j \in 1..Len(expr) :
            /\ FloorDivText(expr, FALSE, j) =>
                   result = NumV(LeftOf(expr, FALSE, j) \div RightOf(expr, j), 1)
            /\ FloorDivText(expr, TRUE, j) => IsNaN(result)

C6_Witness ==
    /\ Returned
    /\ expr = <<"-", "7", "/", "/", "2">>
    /\ IsNaN(result)

\* C7 as claimed: evaluateExpression returns NaN for every token sequence that
\* is empty or does not strictly alternate number, operator, ..., number.
C7_MalformedIsNaN ==
    Returned => (~WellFormedTokens(tokens0) => IsNaN(result))

EqCount(str) == Cardinality({j \in 1..Len(str) : str[j] = "="})
EqAt(str) == CHOOSE j \in 1..Len(str) : str[j] = "="
LeftSide(str) == Trim(SubSeq(str, 1, EqAt(str) - 1))
RightSide(str) == Trim(SubSeq(str, EqAt(str) + 1, Len(str)))

\* |l - r| < 1e-9 for two numbers that are not NaN
Below1em9(l, r) ==
    /\ IsFinite(l)
    /\ IsFinite(r)
    /\ LET p == Abs(l.n * r.d - r.n * l.d)
           q == l.d * r.d
       IN  p = 0 \/ (p <= 2 /\ p * TolDen < q)

Accepted(str) ==
    /\ EqCount(str) = 1
    /\ LeftSide(str) # <<>>
    /\ RightSide(str) # <<>>
    /\ ~IsNaN(EvaluateExpression(LeftSide(str)))
    /\ ~IsNaN(EvaluateExpression(RightSide(str)))
    /\ Below1em9(EvaluateExpression(LeftSide(str)),
                 EvaluateExpression(RightSide(str)))

\* C8: evaluateEquationString returns true exactly when the string holds one
\* '=', both trimmed sides are non-empty, both evaluate to a value that is not
\* NaN and the values differ by less than 1e-9; otherwise it returns false
\* (it always returns a boolean).
C8_EquationChecker ==
    eqResult # "none" => eqResult = BoolStr(Accepted(expr))

C8_Witness ==
    /\ eqResult = "true"
    /\ \E j \in 1..(Len(expr) - 1) : expr[j] = "=" /\ expr[j + 1] = " "

InLoop == pc \in {"pow", "mul", "add"}
LoopOps == IF pc = "pow" THEN PowOps ELSE IF pc = "mul" THEN MulOps ELSE AddOps

\* Every step of the tokenizer's loop advances the index; every iteration
\* of a reduction loop returns NaN or shortens the sequence by two.
C9_Progress ==
    /\ (pc = "tok" /\ pc' = "tok") => (i' > i /\ i' <= Len(s) + 1)
    /\ (InLoop /\ HasOp(tokens, LoopOps)) =>
           \/ pc' = "done" /\ IsNaN(result')
           \/ pc' = pc /\ Len(tokens') = Len(tokens) - 2 /\ folds' = folds + 1

\* C9: evaluateExpression terminates on every string: the tokenizer advances
\* on every iteration, every fold shortens the sequence by two or returns
\* NaN, and there are at most half as many folds as tokens.
C9_Terminates ==
    /\ <>(pc = "done")
    /\ [][C9_Progress]_vars
    /\ [](2 * folds <= Len(tokens0))

C9_Witness ==
    /\ pc = "done"
    /\ folds = 3
    /\ Len(tokens0) = 7
    /\ Len(expr) > Len(tokens0)
    /\ IsFinite(result)

\* ---------------------------------------------------------------- the page
\* An item config of createCisloInputs; x and y are layout only.
Item(eq, dis, ph) == [equation |-> eq, disabled |-> dis, placeholder |-> ph]

\* str.split(/\s+/) of a trimmed string
RECURSIVE SplitWs(_)
SplitWs(str) ==
    LET sp == {j \in 1..Len(str) : IsSpace(str[j])}
    IN  IF str = <<>> THEN <<>>
        ELSE IF sp = {} THEN <<str>>
        ELSE <<SubSeq(str, 1, Min(sp) - 1)>>
                 \o SplitWs(Trim(SubSeq(str, Min(sp), Len(str))))

\* localeCompare on the characters used in ids: digits before letters
IdAlphabet == <<"0", "1", "2", "3", "4", "5", "6", "7", "8", "9",
                "a", "b", "c", "d", "e">>
CharRank(c) == CHOOSE r \in 1..Len(IdAlphabet) : IdAlphabet[r] = c

\* a.localeCompare(b) < 0
RECURSIVE StrLess(_, _)
StrLess(a, b) ==
    IF b = <<>> THEN FALSE
    ELSE IF a = <<>> THEN TRUE
    ELSE IF a[1] # b[1] THEN CharRank(a[1]) < CharRank(b[1])
    ELSE StrLess(Tail(a), Tail(b))

\* (a.equation || '').trim().split(/\s+/)[0] || ''
FirstId(item) ==
    LET ids == SplitWs(Trim(item.equation))
    IN  IF ids = <<>> THEN <<>> ELSE ids[1]

\* [...items].sort(...) of lines 16-20: stable, by the first equation id
RECURSIVE SortItems(_)
SortItems(its) ==
    IF its = <<>> THEN <<>>
    ELSE LET rest == SortItems(SubSeq(its, 1, Len(its) - 1))
             last == its[Len(its)]
             keep == {j \in 1..Len(rest) : ~StrLess(FirstId(last), FirstId(rest[j]))}
             at   == IF keep = {} THEN 0 ELSE Max(keep)
         IN  SubSeq(rest, 1, at) \o <<last>> \o SubSeq(rest, at + 1, Len(rest))

\* The inputs are numbered in document order: input cislo<f> is inputs[f].
Fields == 1..Len(inputs)

\* classList.contains('unknown')
IsUnknown(f) == inputs[f].unknown

InfinityWord == <<"I", "n", "f", "i", "n", "i", "t", "y">>

\* p && !isNaN(parseFloat(p)): after optional blanks and an optional sign, a
\* digit, or a '.' followed by a digit, or the word Infinity
ParsesAsNumber(p) ==
    LET q == Trim(p)
        r == IF q # <<>> /\ q[1] \in {"+", "-"} THEN Tail(q) ELSE q
    IN  /\ r # <<>>
        /\ \/ IsDigit(r[1])
           \/ r[1] = "." /\ Len(r) >= 2 /\ IsDigit(r[2])
           \/ Len(r) >= Len(InfinityWord)
                  /\ SubSeq(r, 1, Len(InfinityWord)) = InfinityWord

\* input.value as createCisloInputs leaves it (lines 29-35)
InitialValue(item) ==
    IF item.disabled /\ ParsesAsNumber(item.placeholder)
    THEN item.placeholder
    ELSE <<>>

\* lines 22-44: one input per item, in sorted order
CreateCisloInputs(its) ==
    [f \in 1..Len(its) |->
        [equation    |-> SortItems(its)[f].equation,
         placeholder |-> SortItems(its)[f].placeholder,
         unknown     |-> ~SortItems(its)[f].disabled]]

\* ---------------------------------------------------- equationIdToInputMap
\* A Map is the sequence of its entries [key, input] in insertion order.
MapKeys(map) == [j \in 1..Len(map) |-> map[j].key]
MapHas(map, key) == \E j \in 1..Len(map) : map[j].key = key
MapGet(map, key) == map[CHOOSE j \in 1..Len(map) : map[j].key = key].input
\* map.set(key, input): a new key goes last, a known key keeps its place
MapSet(map, key, f) ==
    IF MapHas(map, key)
    THEN [j \in 1..Len(map) |->
             IF map[j].key = key THEN [key |-> key, input |-> f] ELSE map[j]]
    ELSE Append(map, [key |-> key, input |-> f])

\* the ids of an input: its data-equation, trimmed and split on whitespace
IdsOf(f) == SplitWs(Trim(inputs[f].equation))

\* the calls map.set(key, input) of the inputs 1..n, in order
RECURSIVE AllIds(_)
AllIds(n) ==
    IF n = 0 THEN <<>>
    ELSE AllIds(n - 1) \o
             [j \in 1..Len(IdsOf(n)) |-> [key |-> IdsOf(n)[j], input |-> n]]

RECURSIVE MapSetAll(_, _)
MapSetAll(map, entries) ==
    IF entries = <<>> THEN map
    ELSE MapSetAll(MapSet(map, Head(entries).key, Head(entries).input),
                   Tail(entries))

\* lines 141-153: every id maps to the last input in document order with it
EquationIdToInputMap == MapSetAll(<<>>, AllIds(Len(inputs)))

\* ------------------------------------------------------- computeEquations
\* id.replace(/\D/g, '') || id.charAt(0)
EqNumOf(id) ==
    LET ds == SelectSeq(id, IsDigit)
    IN  IF ds # <<>> THEN ds ELSE <<id[1]>>

\* a digit string without its leading zeros
RECURSIVE StripZeros(_)
StripZeros(ds) ==
    IF ds # <<>> /\ ds[1] = "0" THEN StripZeros(Tail(ds)) ELSE ds

\* the number written x is less than the number written y (digit strings)
DigitsLess(x, y) ==
    LET u == StripZeros(x)
        v == StripZeros(y)
    IN  \/ Len(u) < Len(v)
        \/ /\ Len(u) = Len(v)
           /\ \E j \in 1..Len(u) :
                  /\ SubSeq(u, 1, j - 1) = SubSeq(v, 1, j - 1)
                  /\ DigitVal(u[j]) < DigitVal(v[j])

\* a.localeCompare(b, undefined, { numeric: true }) < 0: runs of digits are
\* compared by their value ("01" and "1" are equal), the rest by character
RECURSIVE NumericLess(_, _)
NumericLess(a, b) ==
    IF b = <<>> THEN FALSE
    ELSE IF a = <<>> THEN TRUE
    ELSE IF IsDigit(a[1]) /\ IsDigit(b[1])
    THEN LET ea == DigitRunEnd(a, 1)
             eb == DigitRunEnd(b, 1)
             x  == SubSeq(a, 1, ea - 1)
             y  == SubSeq(b, 1, eb - 1)
         IN  IF DigitsLess(x, y) THEN TRUE
             ELSE IF DigitsLess(y, x) THEN FALSE
             ELSE NumericLess(SubSeq(a, ea, Len(a)), SubSeq(b, eb, Len(b)))
    ELSE IF a[1] # b[1] THEN CharRank(a[1]) < CharRank(b[1])
    ELSE NumericLess(Tail(a), Tail(b))

\* [...].sort((a, b) => a.localeCompare(b)): stable, ascending
RECURSIVE SortIds(_)
SortIds(ids) ==
    IF ids = <<>> THEN <<>>
    ELSE LET rest == SortIds(SubSeq(ids, 1, Len(ids) - 1))
             last == ids[Len(ids)]
             keep == {j \in 1..Len(rest) : ~StrLess(last, rest[j])}
             at   == IF keep = {} THEN 0 ELSE Max(keep)
         IN  SubSeq(rest, 1, at) \o <<last>> \o SubSeq(rest, at + 1, Len(rest))

\* [...].sort(numeric localeCompare): stable, so that equation numbers that
\* compare equal stay in the order of the map's keys
RECURSIVE SortEqNumbers(_)
SortEqNumbers(nums) ==
    IF nums = <<>> THEN <<>>
    ELSE LET rest == SortEqNumbers(SubSeq(nums, 1, Len(nums) - 1))
             last == nums[Len(nums)]
             keep == {j \in 1..Len(rest) : ~NumericLess(last, rest[j])}
             at   == IF keep = {} THEN 0 ELSE Max(keep)
         IN  SubSeq(rest, 1, at) \o <<last>> \o SubSeq(rest, at + 1, Len(rest))

\* [...new Set(array)]: the first occurrence of every element, in order
RECURSIVE Unique(_)
Unique(seq) ==
    IF seq = <<>> THEN <<>>
    ELSE LET init == Unique(SubSeq(seq, 1, Len(seq) - 1))
             last == seq[Len(seq)]
         IN  IF \E j \in 1..Len(init) : init[j] = last THEN init
             ELSE Append(init, last)

\* line 164, on the keys of the map
EqNumbersOf(map) ==
    SortEqNumbers(Unique([j \in 1..Len(map) |-> EqNumOf(MapKeys(map)[j])]))

\* lines 173-174: the inputs of the cells of an equation, in id order
Cells(eqNum) ==
    LET ids == SortIds(SelectSeq(MapKeys(idToInput),
                                 LAMBDA id : EqNumOf(id) = eqNum))
    IN  [j \in 1..Len(ids) |-> MapGet(idToInput, ids[j])]

\* (c.input.value || c.input.placeholder || '').toString().trim()
CellText(f) ==
    Trim(IF value[f] # <<>> THEN value[f] ELSE inputs[f].placeholder)

\* .replace(/×/g, '*').replace(/÷/g, '/')
NormalizeGlyphs(str) ==
    [j \in 1..Len(str) |->
        IF str[j] = "×" THEN "*" ELSE IF str[j] = "÷" THEN "/" ELSE str[j]]

\* lines 176-177
EqStr(eqNum) ==
    LET cells == Cells(eqNum)
    IN  NormalizeGlyphs(Flatten([j \in 1..Len(cells) |-> CellText(cells[j])]))

\* eqStr.includes('=')
Evaluable(eqNum) ==
    LET eqStr == EqStr(eqNum) IN \E j \in 1..Len(eqStr) : eqStr[j] = "="

\* line 180
Unknowns(eqNum) == SelectSeq(Cells(eqNum), IsUnknown)

\* !(input.value || '').toString().trim()
IsEmpty(f) == Trim(value[f]) = <<>>

\* line 181
HasEmpty(eqNum) ==
    LET unknowns == Unknowns(eqNum)
    IN  \E j \in 1..Len(unknowns) : IsEmpty(unknowns[j])

\* number of cells of the sequence that are input f
Occurrences(cells, f) == Cardinality({j \in 1..Len(cells) : cells[j] = f})

\* Faulty variant: an equation with an empty unknown is not counted in totalCount.
CountTotalIfComplete(eqNum, total) ==
    LET unknowns == Unknowns(eqNum)
    IN  IF HasEmpty(eqNum) THEN total
        ELSE [f \in Fields |-> total[f] + Occurrences(unknowns, f)]

\* lines 183-186: totalCount after the loop over the unknowns
CountTotal(eqNum, total) ==
    LET unknowns == Unknowns(eqNum)
    IN  [f \in Fields |-> total[f] + Occurrences(unknowns, f)]

\* !hasEmpty && evaluateEquationString(eqStr) of line 188
EquationHolds(eqNum) ==
    IF HasEmpty(eqNum) THEN "false" ELSE EvaluateEquationString(EqStr(eqNum))

\* lines 188-192: correctCount after the equation; the count of an unknown
\* of an equation on numbers outside the modelled range is Unmodelled
CountCorrect(eqNum, correct) ==
    LET unknowns == Unknowns(eqNum)
        holds    == EquationHolds(eqNum)
    IN  IF holds = "true"
        THEN [f \in Fields |-> correct[f] + Occurrences(unknowns, f)]
        ELSE IF holds = "false" THEN correct
        ELSE [f \in Fields |->
                 IF Occurrences(unknowns, f) > 0 THEN Unmodelled ELSE correct[f]]

\* Faulty variant: any correct equation makes the field green.
StatusAnyCorrect(total, correct) ==
    IF total = 0 THEN ""
    ELSE IF correct > 0 THEN "green"
    ELSE "red"

\* lines 200-210: the colour of a non-empty input
Status(total, correct) ==
    IF total = 0 THEN ""
    ELSE IF correct = total THEN "green"
    ELSE IF correct = 0 THEN "red"
    ELSE "orange"

\* lines 214-219
AllGreen ==
    /\ allUnknownInputs # {}
    /\ \A f \in allUnknownInputs :
           ~IsEmpty(f) /\ correctCount[f] = totalCount[f]

\* The configurations of the page.
\* x + 3 = y and y × 2 = z, y shared by both equations ("1c 2a")
ChainedItems ==
    << Item(<<"1", "a">>, FALSE, <<>>),
       Item(<<"1", "b">>, TRUE, <<"+", "3", "=">>),
       Item(<<"1", "c", " ", "2", "a">>, FALSE, <<>>),
       Item(<<"2", "b">>, TRUE, <<"×", "2", "=">>),
       Item(<<"2", "c">>, FALSE, <<>>) >>
\* x = 4, and a second equation that has no cell with an equality symbol
SkippedItems ==
    << Item(<<"2", "a">>, FALSE, <<>>),
       Item(<<"2", "b">>, TRUE, <<"+", "1">>),
       Item(<<"1", "b">>, TRUE, <<" ", "=", " ", "4">>),
       Item(<<"1", "a">>, FALSE, <<>>) >>
\* x + y = 8 where the "=8" is only the placeholder of a third unknown, so
\* that the equality symbol goes away once that input is filled
HintItems ==
    << Item(<<"1", "a">>, FALSE, <<>>),
       Item(<<"1", "b">>, TRUE, <<"+">>),
       Item(<<"1", "c">>, FALSE, <<>>),
       Item(<<"1", "d">>, FALSE, <<"=", "8">>) >>
\* x + x = 8: one input fills two cells of the same equation
TwiceItems ==
    << Item(<<"1", "a", " ", "1", "c">>, FALSE, <<>>),
       Item(<<"1", "b">>, TRUE, <<"+">>),
       Item(<<"1", "d">>, TRUE, <<"=", "8">>) >>
\* no unknown at all
GivenItems ==
    << Item(<<"1", "a">>, TRUE, <<"4">>),
       Item(<<"1", "b">>, TRUE, <<"=", "4">>) >>
\* x = 4 and y = 8 in the equations "1" and "01", two equation numbers that
\* the numeric comparison finds equal
TieItems ==
    << Item(<<"1", "a">>, FALSE, <<>>),
       Item(<<"1", "b">>, TRUE, <<"=", "4">>),
       Item(<<"b", "0", "1">>, FALSE, <<>>),
       Item(<<"c", "0", "1">>, TRUE, <<"=", "8">>) >>
Configs == {ChainedItems, SkippedItems, HintItems, TwiceItems, GivenItems,
            TieItems}

\* What the user can type into a number input.
Texts == {<<>>, <<"1">>, <<"4">>, <<"8">>}

EvalIdle ==
    /\ expr = <<>>
    /\ pc = "idle"
    /\ s = <<>>
    /\ i = 1
    /\ tokens = <<>>
    /\ tokens0 = <<>>
    /\ folds = 0
    /\ result = NoResult
    /\ eqResult = "none"

\* The page after createCisloInputs(items).
Init ==
    /\ EvalIdle
    /\ items \in Configs
    /\ inputs = CreateCisloInputs(items)
    /\ value = [f \in 1..Len(items) |-> InitialValue(SortItems(items)[f])]
    /\ idToInput = <<>>
    /\ eqNumbers = <<>>
    /\ bg = [f \in 1..Len(items) |-> ""]
    /\ verdict = "none"
    /\ gpc = "idle"
    /\ eqIdx = 0
    /\ allUnknownInputs = {}
    /\ correctCount = [f \in 1..Len(items) |-> 0]
    /\ totalCount = [f \in 1..Len(items) |-> 0]

\* The user types into an unknown input (never during a grading pass).
Edit(f, text) ==
    /\ gpc \in {"idle", "graded"}
    /\ IsUnknown(f)
    /\ value[f] # text
    /\ value' = [value EXCEPT ![f] = text]
    /\ gpc' = "idle"
    /\ UNCHANGED <<items, inputs, bg, verdict, idToInput, eqNumbers, eqIdx,
                   allUnknownInputs, correctCount, totalCount>>
    /\ UNCHANGED evalVars

\* computeEquations is called: lines 163-170
BeginGrade ==
    /\ gpc \in {"idle", "graded"}
    /\ gpc' = "loop"
    /\ idToInput' = EquationIdToInputMap
    /\ eqNumbers' = EqNumbersOf(EquationIdToInputMap)
    /\ eqIdx' = 1
    /\ allUnknownInputs' = {}
    /\ correctCount' = [f \in Fields |-> 0]
    /\ totalCount' = [f \in Fields |-> 0]
    /\ UNCHANGED <<items, inputs, value, bg, verdict>>
    /\ UNCHANGED evalVars

\* one iteration of the loop of lines 172-193; modelled for the equations on
\* numbers in the exactly modelled range
GradeEquation ==
    /\ gpc = "loop"
    /\ eqIdx <= Len(eqNumbers)
    /\ eqIdx' = eqIdx + 1
    /\ LET eqNum    == eqNumbers[eqIdx]
           unknowns == Unknowns(eqNum)
       IN  IF Evaluable(eqNum)
           THEN /\ EquationHolds(eqNum) # Unmodelled
                /\ allUnknownInputs' = allUnknownInputs \cup
                       {unknowns[j] : j \in 1..Len(unknowns)}
                /\ totalCount' = CountTotal(eqNum, totalCount)
                /\ correctCount' = CountCorrect(eqNum, correctCount)
           ELSE UNCHANGED <<allUnknownInputs, totalCount, correctCount>>
    /\ UNCHANGED <<items, inputs, value, bg, verdict, gpc, idToInput, eqNumbers>>
    /\ UNCHANGED evalVars

\* lines 195-220: the colours are set and the verdict is returned
FinishGrade ==
    /\ gpc = "loop"
    /\ eqIdx > Len(eqNumbers)
    /\ bg' = [f \in Fields |->
                 IF f \notin allUnknownInputs THEN bg[f]
                 ELSE IF IsEmpty(f) THEN "red"
                 ELSE Status(totalCount[f], correctCount[f])]
    /\ verdict' = BoolStr(AllGreen)
    /\ gpc' = "graded"
    /\ UNCHANGED <<items, inputs, value, idToInput, eqNumbers, eqIdx,
                   allUnknownInputs, correctCount, totalCount>>
    /\ UNCHANGED evalVars

Next ==
    \/ \E f \in Fields, text \in Texts : Edit(f, text)
    \/ BeginGrade
    \/ GradeEquation
    \/ FinishGrade

Spec == Init /\ [][Next]_vars

\* --------------------------------------------------- claims on the grading
\* a grading pass has returned and nothing was typed since
Graded == gpc = "graded"
UnknownFields == {f \in Fields : IsUnknown(f)}
\* the equations a field is tagged into
GroupsOf(f) == {EqNumOf(IdsOf(f)[j]) : j \in 1..Len(IdsOf(f))}
EvaluableGroupsOf(f) == {g \in GroupsOf(f) : Evaluable(g)}
\* the cells of a field that lie in an evaluable equation
EvaluableCellsOf(f) == {j \in 1..Len(IdsOf(f)) : Evaluable(EqNumOf(IdsOf(f)[j]))}
\* no unknown field of the equation is empty and the checker accepts it
GroupCorrect(g) ==
    /\ \A f \in UnknownFields : g \in GroupsOf(f) => value[f] # <<>>
    /\ Accepted(EqStr(g))

\* C1 as claimed: the verdict of a pass is true iff there is an unknown field
\* and every unknown field is non-empty with correctCount = totalCount.
C1_VerdictIff ==
    Graded =>
        (verdict = "true" <=>
            /\ UnknownFields # {}
            /\ \A f \in UnknownFields :
                   value[f] # <<>> /\ correctCount[f] = totalCount[f])

\* C2: after a pass a non-empty unknown field of at least one evaluable
\* equation is green iff all its evaluable equations are correct, red iff
\* none is, orange otherwise; a field of one correct and one incorrect
\* equation is orange.
C2_SharedFieldStatus ==
    Graded =>
        \A f \in UnknownFields :
            (value[f] # <<>> /\ EvaluableGroupsOf(f) # {}) =>
                LET good == {g \in EvaluableGroupsOf(f) : GroupCorrect(g)}
                IN  bg[f] = IF good = EvaluableGroupsOf(f) THEN "green"
                            ELSE IF good = {} THEN "red"
                            ELSE "orange"

C2_Witness ==
    /\ Graded
    /\ items = ChainedItems
    /\ \E f \in UnknownFields :
           /\ value[f] # <<>>
           /\ Cardinality(EvaluableGroupsOf(f)) = 2
           /\ Cardinality({g \in EvaluableGroupsOf(f) : GroupCorrect(g)}) = 1
           /\ bg[f] = "orange"

\* C3 as claimed: after a pass every empty unknown field is red, whatever
\* equations it belongs to.
C3_EmptyIsRed ==
    Graded => \A f \in UnknownFields : value[f] = <<>> => bg[f] = "red"

\* what a pass over the snapshot sets on inputs that had no colour
ScratchStatus(f) ==
    IF f \notin allUnknownInputs THEN ""
    ELSE IF IsEmpty(f) THEN "red"
    ELSE Status(totalCount[f], correctCount[f])

\* C4 as claimed: after a pass the colour of every field is the one computed
\* from the snapshot of that pass alone; no colour of an earlier pass is left.
C4_NoStaleStatus ==
    Graded => \A f \in Fields : bg[f] = ScratchStatus(f)

InPass == gpc \in {"loop", "graded"}

\* C10 as claimed: at every point of a pass 0 <= correctCount <= totalCount <=
\* number of evaluable equations of the field, and every field of
\* allUnknownInputs has totalCount >= 1.
C10_CountsByGroups ==
    InPass =>
        \A f \in Fields :
            /\ 0 <= correctCount[f]
            /\ correctCount[f] <= totalCount[f]
            /\ totalCount[f] <= Cardinality(EvaluableGroupsOf(f))
            /\ f \in allUnknownInputs => totalCount[f] >= 1

\* C10 amended: at every point of a pass 0 <= correctCount <= totalCount <=
\* number of cells of the field in evaluable equations (an input that fills
\* two cells of one equation counts twice), and every field of
\* allUnknownInputs has totalCount >= 1, so that its colour is never ''.
C10_CountsByCells ==
    InPass =>
        \A f \in Fields :
            /\ 0 <= correctCount[f]
            /\ correctCount[f] <= totalCount[f]
            /\ totalCount[f] <= Cardinality(EvaluableCellsOf(f))
            /\ f \in allUnknownInputs =>
                   /\ totalCount[f] >= 1
                   /\ Status(totalCount[f], correctCount[f]) # ""

C10_Witness ==
    /\ Graded
    /\ items = TwiceItems
    /\ \E f \in allUnknownInputs :
           /\ totalCount[f] = 2
           /\ correctCount[f] = 2
           /\ Cardinality(EvaluableGroupsOf(f)) = 1

=============================================================================
